---- MODULE Spec2Model ----
(***************************************************************************)
(* Model of utils/server/index.ts: OpenAIStream, the adapter that posts a  *)
(* chat request and turns the server-sent-event response into a byte       *)
(* stream, and OpenAIError.                                                *)
(*                                                                         *)
(* Two specifications share the variables:                                 *)
(*   CallSpec  the call up to its result: the request that is built, the   *)
(*             response status check, the error thrown or the stream made; *)
(*   Spec      the life of the ReadableStream that a 200 response yields:  *)
(*             network chunks, TextDecoder, the event parser, onParse, the *)
(*             stream controller and the consumer's reader.                *)
(***************************************************************************)
EXTENDS Integers, Sequences, FiniteSets, TLC

VARIABLES
    pc,        \* where the call is: "idle", "fetch", "status", "thrown", "returned"
    config,    \* the imported constants and process.env, read at call time
    args,      \* the arguments of OpenAIStream
    request,   \* what was handed to fetch: url, headers, method, body
    fetches,   \* number of calls of fetch made so far
    res,       \* the Response fetch resolved with
    thrown,    \* the error the call rejected with
    sent,      \* events the upstream has written to the response body so far
    ended,     \* the upstream has ended the response body
    wire,      \* bytes written by the upstream and not yet read by the loop
    parser,    \* the event parser's state: unfinished line and pending data
    stream,    \* the ReadableStream, its controller and its reader
    log,       \* one entry per event onParse has handled
    loop       \* the for-await loop of start: "iterating" or "done"

callVars == <<pc, config, args, request, fetches, res, thrown>>
streamVars == <<sent, ended, wire, parser, stream, log, loop>>
vars == <<pc, config, args, request, fetches, res, thrown,
          sent, ended, wire, parser, stream, log, loop>>

(***************************************************************************)
(* Bounds of the model.                                                    *)
(***************************************************************************)
MaxMessages == 2
MaxEvents == 3

(***************************************************************************)
(* JavaScript values that can be undefined, null, a string or an object.   *)
(* An object is its list of <<key, value>> pairs in insertion order.       *)
(***************************************************************************)
Undefined == [t |-> "undefined", s |-> "", o |-> <<>>]
Null == [t |-> "null", s |-> "", o |-> <<>>]
Str(s) == [t |-> "string", s |-> s, o |-> <<>>]
Obj(pairs) == [t |-> "object", s |-> "", o |-> pairs]

HasProp(o, k) == \E i \in DOMAIN o : o[i][1] = k

GetProp(o, k) == o[CHOOSE i \in DOMAIN o : o[i][1] = k][2]

\* o[k] = v of an object literal: a key already present keeps its place.
SetProp(o, k, v) ==
    IF HasProp(o, k)
    THEN [i \in DOMAIN o |-> IF o[i][1] = k THEN <<k, v>> ELSE o[i]]
    ELSE Append(o, <<k, v>>)

\* ...(cond && {props}): every property of props when cond holds, nothing otherwise.
RECURSIVE Spread(_, _, _)
Spread(o, cond, props) ==
    IF ~cond \/ props = <<>> THEN o
    ELSE Spread(SetProp(o, Head(props)[1], Head(props)[2]), cond, Tail(props))

\* value.k of a JavaScript value that is not null or undefined.
Member(v, k) == IF v.t = "object" /\ HasProp(v.o, k) THEN GetProp(v.o, k) ELSE Undefined

Truthy(v) == v.t = "object" \/ (v.t = "string" /\ v.s # "")

\* `${v}` in a template literal.
String(v) ==
    CASE v.t = "string" -> v.s
      [] v.t = "undefined" -> "undefined"
      [] v.t = "null" -> "null"
      [] OTHER -> "[object Object]"

(***************************************************************************)
(* Configuration and arguments.                                            *)
(***************************************************************************)
ApiTypes == {"openai", "azure", "other"}
Hosts == {"https://api.openai.com", "https://proxy.example"}
Configs ==
    [OPENAI_API_TYPE : ApiTypes,
     OPENAI_API_HOST : Hosts,
     AZURE_DEPLOYMENT_ID : {"dep"},
     OPENAI_API_VERSION : {"2023-03-15-preview"},
     OPENAI_ORGANIZATION : {"", "org-1"},
     OPENAI_API_KEY : {Undefined, Str("sk-env")}]

Message ==
    {[role |-> "user", content |-> "question"], [role |-> "assistant", content |-> "answer"]}

RECURSIVE SeqsUpTo(_, _)
SeqsUpTo(S, n) ==
    IF n = 0 THEN {<<>>}
    ELSE LET shorter == SeqsUpTo(S, n - 1)
         IN  shorter \cup {Append(q, x) : q \in shorter, x \in S}

Arguments ==
    [model : [id : {"gpt-3.5-turbo", "gpt-4"}],
     systemPrompt : {"You are ChatGPT", "Be brief"},
     temperature : {0, 1},
     key : {"", "sk-caller"},
     messages : SeqsUpTo(Message, MaxMessages)]

(***************************************************************************)
(* The request.                                                            *)
(***************************************************************************)
RUBRIC == "IELTS Writing Excellence Assessor"
MAX_TOKENS == 4000

urlWithoutFlavor(c) == <<c.OPENAI_API_HOST, "/v1/chat/completions">>

url(c) ==
    IF c.OPENAI_API_TYPE = "azure"
    THEN <<c.OPENAI_API_HOST, "/openai/deployments/", c.AZURE_DEPLOYMENT_ID,
           "/chat/completions?api-version=", c.OPENAI_API_VERSION>>
    ELSE <<c.OPENAI_API_HOST, "/v1/chat/completions">>

credentialEnvironmentFirst(c, a) ==
    IF c.OPENAI_API_KEY.t = "string" THEN c.OPENAI_API_KEY.s ELSE a.key

\* key ? key : process.env.OPENAI_API_KEY, inside a template literal
credential(c, a) == IF a.key # "" THEN a.key ELSE String(c.OPENAI_API_KEY)

headers(c, a) ==
    LET h0 == <<<<"Content-Type", <<"application/json">>>>>>
        h1 == Spread(h0, c.OPENAI_API_TYPE = "openai",
                     <<<<"Authorization", <<"Bearer ", credential(c, a)>>>>>>)
        h2 == Spread(h1, c.OPENAI_API_TYPE = "azure",
                     <<<<"api-key", <<credential(c, a)>>>>>>)
    IN  Spread(h2, c.OPENAI_API_TYPE = "openai" /\ c.OPENAI_ORGANIZATION # "",
               <<<<"OpenAI-Organization", <<c.OPENAI_ORGANIZATION>>>>>>)

systemMessageWithPrompt(systemPrompt) == [role |-> "system", content |-> systemPrompt]

systemMessage(systemPrompt) == [role |-> "system", content |-> RUBRIC]

bodyModelFromCaller(c, a) ==
    LET b1 == SetProp(<<>>, "messages", <<systemMessage(a.systemPrompt)>> \o a.messages)
        b2 == SetProp(b1, "max_tokens", MAX_TOKENS)
        b3 == SetProp(b2, "temperature", 0)
        b4 == SetProp(b3, "stream", TRUE)
        b5 == SetProp(b4, "model", "gpt-3.5-turbo-16k")
    IN  Spread(b5, c.OPENAI_API_TYPE = "openai", <<<<"model", a.model.id>>>>)

\* The object literal handed to JSON.stringify, its keys in insertion order.
body(c, a) ==
    LET b0 == Spread(<<>>, c.OPENAI_API_TYPE = "openai", <<<<"model", a.model.id>>>>)
        b1 == SetProp(b0, "messages", <<systemMessage(a.systemPrompt)>> \o a.messages)
        b2 == SetProp(b1, "max_tokens", MAX_TOKENS)
        b3 == SetProp(b2, "temperature", 0)
        b4 == SetProp(b3, "stream", TRUE)
    IN  SetProp(b4, "model", "gpt-3.5-turbo-16k")

NoRequest == [url |-> <<>>, headers |-> <<>>, method |-> "", body |-> <<>>]

fetchInit(c, a) ==
    [url |-> url(c), headers |-> headers(c, a), method |-> "POST", body |-> body(c, a)]

(***************************************************************************)
(* The response and the status check.                                      *)
(***************************************************************************)
ErrorObjects ==
    {Obj(<<<<"message", Str("m")>>, <<"type", Str("t")>>,
           <<"param", Str("p")>>, <<"code", Str("c")>>>>),
     Obj(<<<<"message", Str("Incorrect API key provided")>>,
           <<"type", Str("invalid_request_error")>>,
           <<"param", Null>>, <<"code", Str("invalid_api_key")>>>>)}

\* A response body: its text, whether the text is JSON, and the value it parses to.
ErrorBodies ==
    {[text |-> "{error:{...}}", valid |-> TRUE, value |-> Obj(<<<<"error", e>>>>)] :
        e \in ErrorObjects}
OtherBodies ==
    {[text |-> "{}", valid |-> TRUE, value |-> Obj(<<>>)],
     [text |-> "{detail:'quota'}", valid |-> TRUE,
      value |-> Obj(<<<<"detail", Str("quota")>>>>)],
     [text |-> "{error:null}", valid |-> TRUE, value |-> Obj(<<<<"error", Null>>>>)],
     [text |-> "null", valid |-> TRUE, value |-> Null],
     [text |-> "<html>Bad Gateway</html>", valid |-> FALSE, value |-> Undefined]}
EventStreamBody == [text |-> "text/event-stream", valid |-> FALSE, value |-> Undefined]

Responses ==
    [status : {401, 502}, statusText : {"Unauthorized"}, body : ErrorBodies \cup OtherBodies]
    \cup [status : {200}, statusText : {"OK"}, body : {EventStreamBody}]

NoResponse == [status |-> 0, statusText |-> "", body |-> EventStreamBody]

NoError ==
    [name |-> "", message |-> <<>>, type |-> Undefined, param |-> Undefined,
     code |-> Undefined]

Error(name, message) ==
    [name |-> name, message |-> message, type |-> Undefined, param |-> Undefined,
     code |-> Undefined]

OpenAIErrorSwapped(message, type, param, code) ==
    [name |-> "OpenAIError",
     message |-> <<IF message.t = "undefined" THEN "" ELSE String(message)>>,
     type |-> type, param |-> code, code |-> param]

\* new OpenAIError(message, type, param, code); super(message) makes the message a string.
OpenAIError(message, type, param, code) ==
    [name |-> "OpenAIError",
     message |-> <<IF message.t = "undefined" THEN "" ELSE String(message)>>,
     type |-> type, param |-> param, code |-> code]

\* decoder.decode(result?.value) || result.statusText, inside the template literal
decodedOrStatusText(result) ==
    LET decoded == ""   \* decoder.decode(undefined)
    IN  IF decoded # "" THEN decoded ELSE String(Member(result, "statusText"))

\* What the branch res.status !== 200 throws.
statusError(r) ==
    IF ~r.body.valid THEN Error("SyntaxError", <<"Unexpected token in JSON">>)
    ELSE LET result == r.body.value
         IN  IF result.t = "null"
             THEN Error("TypeError", <<"Cannot read properties of null">>)
             ELSE IF Truthy(Member(result, "error"))
             THEN LET e == Member(result, "error")
                  IN  OpenAIError(Member(e, "message"), Member(e, "type"),
                                  Member(e, "param"), Member(e, "code"))
             ELSE IF Member(result, "value").t # "undefined"
             THEN Error("TypeError", <<"The input must be a BufferSource">>)
             ELSE Error("Error", <<"OpenAI API returned an error: ",
                                   decodedOrStatusText(result)>>)

(***************************************************************************)
(* Text and bytes.  Characters: "a" (one byte, 61), "e-acute" (two bytes,  *)
(* C3 A9) and "U+FFFD", the replacement character (EF BF BD).  The ASCII   *)
(* runs that frame an event are single symbols, the same as byte and as    *)
(* character:                                                              *)
(*   DATA_CONTENT   data: {"choices":[{"delta":{"content":"                *)
(*   END_CONTENT    "},"finish_reason":null}]}                             *)
(*   DATA_ROLE      data: {"choices":[{"delta":{"role":"assistant"},       *)
(*                  "finish_reason":null}]}                                *)
(*   DATA_FINISH    data: {"choices":[{"delta":{},"finish_reason":"stop"}]}*)
(*   DATA_DONE      data: [DONE]                                           *)
(*   RETRY          retry: 1000                                            *)
(*   LF             the line end                                           *)
(***************************************************************************)
Framing == {"DATA_CONTENT", "END_CONTENT", "DATA_ROLE", "DATA_FINISH", "DATA_DONE",
            "RETRY", "LF"}

utf8(ch) ==
    CASE ch = "a" -> <<"61">>
      [] ch = "e-acute" -> <<"C3", "A9">>
      [] ch = "U+FFFD" -> <<"EF", "BF", "BD">>
      [] OTHER -> <<ch>>

\* encoder.encode(text)
RECURSIVE encode(_)
encode(text) == IF text = <<>> THEN <<>> ELSE utf8(Head(text)) \o encode(Tail(text))

\* decoder.decode(chunk): each call decodes its chunk alone, so a byte sequence cut
\* by the chunk's end, and the continuation byte that starts the next chunk, each
\* become U+FFFD.
RECURSIVE decode(_)
decode(bytes) ==
    IF bytes = <<>> THEN <<>>
    ELSE IF Head(bytes) = "61" THEN <<"a">> \o decode(Tail(bytes))
    ELSE IF Head(bytes) = "C3" /\ Len(bytes) >= 2 /\ bytes[2] = "A9"
         THEN <<"e-acute">> \o decode(Tail(Tail(bytes)))
    ELSE IF Head(bytes) \in Framing THEN <<Head(bytes)>> \o decode(Tail(bytes))
    ELSE <<"U+FFFD">> \o decode(Tail(bytes))

(***************************************************************************)
(* The upstream's events and their bytes on the wire.                      *)
(***************************************************************************)
Fragments == {<<"a">>, <<"e-acute">>}

UpstreamEvents ==
    [kind : {"content"}, text : Fragments]
    \cup [kind : {"role", "finish", "done", "retry"}, text : {<<>>}]

wireOf(e) ==
    CASE e.kind = "content" -> <<"DATA_CONTENT">> \o encode(e.text) \o <<"END_CONTENT", "LF", "LF">>
      [] e.kind = "role" -> <<"DATA_ROLE", "LF", "LF">>
      [] e.kind = "finish" -> <<"DATA_FINISH", "LF", "LF">>
      [] e.kind = "done" -> <<"DATA_DONE", "LF", "LF">>
      [] e.kind = "retry" -> <<"RETRY", "LF">>

(***************************************************************************)
(* The event parser made by createParser(onParse).  feed appends the text  *)
(* to the unfinished line; every finished line is a field of the event     *)
(* under construction, and an empty line dispatches that event.            *)
(***************************************************************************)
NewParser == [buffer |-> <<>>, data |-> <<>>]

DataLines == {"DATA_CONTENT", "DATA_ROLE", "DATA_FINISH", "DATA_DONE"}

parseEventStreamLine(p, line, events) ==
    IF line = <<>>
    THEN IF p.data # <<>>
         THEN [parser |-> [buffer |-> <<>>, data |-> <<>>],
               events |-> Append(events, [type |-> "event",
                                          data |-> SubSeq(p.data, 1, Len(p.data) - 1)])]
         ELSE [parser |-> [p EXCEPT !.buffer = <<>>], events |-> events]
    ELSE IF Head(line) \in DataLines
    THEN [parser |-> [buffer |-> <<>>, data |-> p.data \o line \o <<"LF">>],
          events |-> events]
    ELSE IF Head(line) = "RETRY"
    THEN [parser |-> [p EXCEPT !.buffer = <<>>],
          events |-> Append(events, [type |-> "reconnect-interval", data |-> <<>>])]
    ELSE [parser |-> [p EXCEPT !.buffer = <<>>], events |-> events]

\* parser.feed(text): the parser afterwards and the events handed to onParse, in order.
RECURSIVE feed(_, _, _)
feed(p, text, events) ==
    IF text = <<>> THEN [parser |-> p, events |-> events]
    ELSE IF Head(text) = "LF"
    THEN LET r == parseEventStreamLine(p, p.buffer, events)
         IN  feed(r.parser, Tail(text), r.events)
    ELSE feed([p EXCEPT !.buffer = Append(@, Head(text))], Tail(text), events)

TextChars == {"a", "e-acute", "U+FFFD"}

\* JSON.parse(data) and what onParse reads of it: whether it threw, whether
\* choices[0].finish_reason is null, and choices[0].delta.content.
JSONparse(data) ==
    IF data = <<"DATA_FINISH">>
    THEN [ok |-> TRUE, finish_reason |-> "stop", hasContent |-> FALSE, content |-> <<>>]
    ELSE IF data = <<"DATA_ROLE">>
    THEN [ok |-> TRUE, finish_reason |-> "null", hasContent |-> FALSE, content |-> <<>>]
    ELSE IF /\ Len(data) >= 2
            /\ data[1] = "DATA_CONTENT"
            /\ data[Len(data)] = "END_CONTENT"
            /\ \A i \in 2..(Len(data) - 1) : data[i] \in TextChars
    THEN [ok |-> TRUE, finish_reason |-> "null", hasContent |-> TRUE,
          content |-> SubSeq(data, 2, Len(data) - 1)]
    ELSE [ok |-> FALSE, finish_reason |-> "null", hasContent |-> FALSE, content |-> <<>>]

(***************************************************************************)
(* The ReadableStream, its default controller and its reader.              *)
(*   state, queue, closeRequested, storedError  the stream's own slots     *)
(*   readRequests  reads of the consumer that wait for a chunk             *)
(*   reads         the results the consumer's reads settled with, in order *)
(*   enqueued      every chunk enqueue has accepted, in order              *)
(*   cancelled     the consumer has cancelled                              *)
(***************************************************************************)
NoStream ==
    [state |-> "none", queue |-> <<>>, closeRequested |-> FALSE, storedError |-> "",
     readRequests |-> 0, reads |-> <<>>, enqueued |-> <<>>, cancelled |-> FALSE]

NewReadableStream == [NoStream EXCEPT !.state = "readable"]

RECURSIVE Repeat(_, _)
Repeat(x, n) == IF n = 0 THEN <<>> ELSE <<x>> \o Repeat(x, n - 1)

ReadChunk(chunk) == [kind |-> "chunk", value |-> chunk]
ReadDone == [kind |-> "done", value |-> <<>>]
ReadError(e) == [kind |-> "error", value |-> <<e>>]

canCloseOrEnqueueIgnoringClose(st) == st.state = "readable"

\* close and enqueue throw a TypeError unless this holds.
canCloseOrEnqueue(st) == ~st.closeRequested /\ st.state = "readable"

\* The stream becomes closed; reads that wait settle with done.
readableStreamClose(st) ==
    [st EXCEPT !.state = "closed",
               !.reads = @ \o Repeat(ReadDone, st.readRequests),
               !.readRequests = 0]

\* controller.close(), when it does not throw
controllerClose(st) ==
    LET requested == [st EXCEPT !.closeRequested = TRUE]
    IN  IF st.queue = <<>> THEN readableStreamClose(requested) ELSE requested

\* controller.enqueue(chunk), when it does not throw
controllerEnqueue(st, chunk) ==
    IF st.readRequests > 0
    THEN [st EXCEPT !.reads = Append(@, ReadChunk(chunk)),
                    !.readRequests = @ - 1,
                    !.enqueued = Append(@, chunk)]
    ELSE [st EXCEPT !.queue = Append(@, chunk), !.enqueued = Append(@, chunk)]

controllerErrorIgnored(st, e) == st

controllerErrorKeepingQueue(st, e) ==
    IF st.state # "readable" THEN st
    ELSE [st EXCEPT !.state = "errored",
                    !.storedError = e,
                    !.reads = @ \o Repeat(ReadError(e), st.readRequests),
                    !.readRequests = 0]

\* controller.error(e): nothing unless the stream is readable; else the queue is
\* dropped, the stream is errored and the reads that wait are rejected.
controllerError(st, e) ==
    IF st.state # "readable" THEN st
    ELSE [st EXCEPT !.state = "errored",
                    !.storedError = e,
                    !.queue = <<>>,
                    !.reads = @ \o Repeat(ReadError(e), st.readRequests),
                    !.readRequests = 0]

\* reader.read()
readerRead(st) ==
    CASE st.state = "closed" -> [st EXCEPT !.reads = Append(@, ReadDone)]
      [] st.state = "errored" -> [st EXCEPT !.reads = Append(@, ReadError(st.storedError))]
      [] OTHER ->
          IF st.queue # <<>>
          THEN LET taken == [st EXCEPT !.queue = Tail(@)]
                   after == IF taken.closeRequested /\ taken.queue = <<>>
                            THEN readableStreamClose(taken) ELSE taken
               IN  [after EXCEPT !.reads = Append(@, ReadChunk(Head(st.queue)))]
          ELSE [st EXCEPT !.readRequests = @ + 1]

\* reader.cancel(): the underlying source has no cancel method.
readerCancel(st) ==
    IF st.state # "readable" THEN [st EXCEPT !.cancelled = TRUE]
    ELSE [readableStreamClose(st) EXCEPT !.queue = <<>>, !.cancelled = TRUE]

(***************************************************************************)
(* onParse.                                                                *)
(***************************************************************************)
onParseContentRequired(st, event) ==
    IF event.type # "event" THEN st
    ELSE LET json == JSONparse(event.data)
         IN  IF ~json.ok THEN controllerError(st, "SyntaxError")
             ELSE IF json.finish_reason # "null"
             THEN IF canCloseOrEnqueue(st) THEN controllerClose(st)
                  ELSE controllerError(st, "TypeError")
             ELSE IF ~json.hasContent THEN controllerError(st, "TypeError")
             ELSE IF canCloseOrEnqueue(st) THEN controllerEnqueue(st, encode(json.content))
             ELSE controllerError(st, "TypeError")

onParse(st, event) ==
    IF event.type # "event" THEN st
    ELSE LET json == JSONparse(event.data)
         IN  IF ~json.ok THEN controllerError(st, "SyntaxError")
             ELSE IF json.finish_reason # "null"
             THEN IF canCloseOrEnqueue(st) THEN controllerClose(st)
                  ELSE controllerError(st, "TypeError")
             ELSE LET text == IF json.hasContent THEN json.content ELSE <<>>
                      queue == encode(text)
                  IN  IF canCloseOrEnqueue(st) THEN controllerEnqueue(st, queue)
                      ELSE controllerError(st, "TypeError")

\* What the log keeps of one call of onParse: the event and the stream before it.
logEntry(st, event) ==
    LET json == JSONparse(event.data)
    IN  [kind |-> IF event.type # "event" THEN "reconnect-interval"
                  ELSE IF ~json.ok THEN "invalid"
                  ELSE IF json.finish_reason # "null" THEN "finish"
                  ELSE IF json.hasContent THEN "content" ELSE "nocontent",
         content |-> json.content,
         state |-> st.state,
         closeRequested |-> st.closeRequested,
         enqueued |-> Len(st.enqueued),
         reads |-> Len(st.reads)]

\* The calls of onParse that one parser.feed makes, in order.
RECURSIVE dispatch(_, _)
dispatch(sl, events) ==
    IF events = <<>> THEN sl
    ELSE dispatch([stream |-> onParse(sl.stream, Head(events)),
                   log |-> Append(sl.log, logEntry(sl.stream, Head(events)))],
                  Tail(events))

(***************************************************************************)
(* The call: OpenAIStream up to the error it throws or the stream it       *)
(* returns.                                                                *)
(***************************************************************************)
StreamIdle ==
    /\ sent = <<>>
    /\ ended = FALSE
    /\ wire = <<>>
    /\ parser = NewParser
    /\ log = <<>>
    /\ loop = "iterating"

CallInit ==
    /\ pc = "idle"
    /\ config \in Configs
    /\ args \in Arguments
    /\ request = NoRequest
    /\ fetches = 0
    /\ res = NoResponse
    /\ thrown = NoError
    /\ stream = NoStream
    /\ StreamIdle

\* The call up to await fetch(url, init).
OpenAIStream ==
    /\ pc = "idle"
    /\ request' = fetchInit(config, args)
    /\ fetches' = fetches + 1
    /\ pc' = "fetch"
    /\ UNCHANGED <<config, args, res, thrown, streamVars>>

fetchResolves ==
    /\ pc = "fetch"
    /\ res' \in Responses
    /\ pc' = "status"
    /\ UNCHANGED <<config, args, request, fetches, thrown, streamVars>>

\* fetch rejects (no connection): the await throws out of OpenAIStream.
fetchRejects ==
    /\ pc = "fetch"
    /\ thrown' = Error("TypeError", <<"fetch failed">>)
    /\ pc' = "thrown"
    /\ UNCHANGED <<config, args, request, fetches, res, streamVars>>

statusNot200Retries ==
    /\ pc = "status"
    /\ res.status # 200
    /\ request' = fetchInit(config, args)
    /\ fetches' = fetches + 1
    /\ pc' = "fetch"
    /\ UNCHANGED <<config, args, res, thrown, streamVars>>

statusNot200FallsThrough ==
    /\ pc = "status"
    /\ res.status # 200
    /\ stream' = NewReadableStream
    /\ pc' = "returned"
    /\ UNCHANGED <<config, args, request, fetches, res, thrown,
                   sent, ended, wire, parser, log, loop>>

statusNot200 ==
    /\ pc = "status"
    /\ res.status # 200
    /\ thrown' = statusError(res)
    /\ pc' = "thrown"
    /\ UNCHANGED <<config, args, request, fetches, res, streamVars>>

\* new ReadableStream({start}); start runs up to its first await; return stream.
returnStream ==
    /\ pc = "status"
    /\ res.status = 200
    /\ stream' = NewReadableStream
    /\ pc' = "returned"
    /\ UNCHANGED <<config, args, request, fetches, res, thrown,
                   sent, ended, wire, parser, log, loop>>

CallNext == OpenAIStream \/ fetchResolves \/ fetchRejects \/ statusNot200 \/ returnStream

CallSpec == CallInit /\ [][CallNext]_vars

(***************************************************************************)
(* The stream of a 200 response: the upstream writes events and ends the   *)
(* body, start's loop reads chunks, the consumer reads and cancels.        *)
(***************************************************************************)
DefaultConfig ==
    [OPENAI_API_TYPE |-> "openai", OPENAI_API_HOST |-> "https://api.openai.com",
     AZURE_DEPLOYMENT_ID |-> "dep", OPENAI_API_VERSION |-> "2023-03-15-preview",
     OPENAI_ORGANIZATION |-> "", OPENAI_API_KEY |-> Str("sk-env")]

DefaultArguments ==
    [model |-> [id |-> "gpt-3.5-turbo"], systemPrompt |-> "You are ChatGPT",
     temperature |-> 1, key |-> "", messages |-> <<>>]

Init ==
    /\ pc = "returned"
    /\ config = DefaultConfig
    /\ args = DefaultArguments
    /\ request = fetchInit(DefaultConfig, DefaultArguments)
    /\ fetches = 1
    /\ res = [status |-> 200, statusText |-> "OK", body |-> EventStreamBody]
    /\ thrown = NoError
    /\ stream = NewReadableStream
    /\ StreamIdle

\* The upstream writes one more event; a retry directive comes first or not at all.
upstreamWrites ==
    /\ ~ended
    /\ Len(sent) < MaxEvents
    /\ \E e \in UpstreamEvents :
          /\ e.kind = "retry" => sent = <<>>
          /\ sent' = Append(sent, e)
          /\ wire' = wire \o wireOf(e)
    /\ UNCHANGED <<callVars, ended, parser, stream, log, loop>>

upstreamEnds ==
    /\ ~ended
    /\ ended' = TRUE
    /\ UNCHANGED <<callVars, sent, wire, parser, stream, log, loop>>

\* One turn of for await (const chunk of res.body): parser.feed(decoder.decode(chunk)),
\* with every call of onParse that the feed makes.
loopChunk ==
    /\ loop = "iterating"
    /\ wire # <<>>
    /\ \E n \in 1..Len(wire) :
          LET chunk == SubSeq(wire, 1, n)
              fed == feed(parser, decode(chunk), <<>>)
              after == dispatch([stream |-> stream, log |-> log], fed.events)
          IN  /\ wire' = SubSeq(wire, n + 1, Len(wire))
              /\ parser' = fed.parser
              /\ stream' = after.stream
              /\ log' = after.log
    /\ UNCHANGED <<callVars, sent, ended, loop>>

\* The body is done: the loop ends and start's promise resolves.
loopEnds ==
    /\ loop = "iterating"
    /\ wire = <<>>
    /\ ended
    /\ loop' = "done"
    /\ UNCHANGED <<callVars, sent, ended, wire, parser, stream, log>>

consumerDone ==
    \/ stream.cancelled
    \/ /\ stream.reads # <<>>
       /\ stream.reads[Len(stream.reads)].kind \in {"done", "error"}

\* The consumer awaits reader.read(), one read at a time, until done or an error.
read ==
    /\ ~consumerDone
    /\ stream.readRequests = 0
    /\ stream' = readerRead(stream)
    /\ UNCHANGED <<callVars, sent, ended, wire, parser, log, loop>>

\* The consumer gives the stream up: reader.cancel().
cancel ==
    /\ ~consumerDone
    /\ stream' = readerCancel(stream)
    /\ UNCHANGED <<callVars, sent, ended, wire, parser, log, loop>>

\* A consumer that reads and never cancels.
Next == upstreamWrites \/ upstreamEnds \/ loopChunk \/ loopEnds \/ read

Spec == Init /\ [][Next]_vars

\* A consumer that may also cancel.
CancelNext == upstreamWrites \/ upstreamEnds \/ loopChunk \/ loopEnds \/ read \/ cancel

CancelSpec == Init /\ [][CancelNext]_vars

(***************************************************************************)
(* Properties of the stream (under Spec).                                  *)
(***************************************************************************)
RECURSIVE Flatten(_)
Flatten(seqs) == IF seqs = <<>> THEN <<>> ELSE Head(seqs) \o Flatten(Tail(seqs))

IsPrefix(p, q) == Len(p) <= Len(q) /\ p = SubSeq(q, 1, Len(p))

\* The chunks the consumer's reads have returned, in order, and their bytes.
chunksRead == [i \in {j \in DOMAIN stream.reads : stream.reads[j].kind = "chunk"} |->
                  stream.reads[i].value]
bytesRead == Flatten(chunksRead)

lastRead == stream.reads[Len(stream.reads)]

\* The consumer has read to the end: its last read reported done or failed.
finishedReading == stream.reads # <<>> /\ lastRead.kind \in {"done", "error"}

\* The bytes of the content fragments the upstream has sent, in order.
RECURSIVE fragmentBytes(_)
fragmentBytes(events) ==
    IF events = <<>> THEN <<>>
    ELSE (IF Head(events).kind = "content" THEN encode(Head(events).text) ELSE <<>>)
         \o fragmentBytes(Tail(events))

\* The body is N content events, then one finish event, then its end.
contentThenFinish ==
    /\ ended
    /\ sent # <<>>
    /\ sent[Len(sent)].kind = "finish"
    /\ \A i \in 1..(Len(sent) - 1) : sent[i].kind = "content"

\* C1: for a body of N content events followed by one finish event, the bytes read
\* from the stream are the encoded fragments in order (a prefix of them while the
\* consumer is still reading), the stream never errors, and the consumer's last
\* read reports the end of the stream.
C1_OutputIsConcatenation ==
    contentThenFinish =>
        /\ stream.state # "errored"
        /\ IsPrefix(bytesRead, fragmentBytes(sent))
        /\ finishedReading => (lastRead.kind = "done" /\ bytesRead = fragmentBytes(sent))

\* C2: once onParse has handled an event with a non-null finish_reason, the
\* controller accepts no further chunk: the chunks enqueued are those enqueued
\* before that event, whatever events follow, and what the consumer has read is a
\* prefix of them.
C2_NothingAfterFinish ==
    \A i \in DOMAIN log :
        log[i].kind = "finish" =>
            /\ Len(stream.enqueued) = log[i].enqueued
            /\ (stream.closeRequested \/ stream.state # "readable")
            /\ IsPrefix(chunksRead, stream.enqueued)

C2_Witness ==
    \E i, j \in DOMAIN log :
        /\ i < j
        /\ log[i].kind = "finish" /\ log[i].state = "readable" /\ log[i].enqueued > 0
        /\ log[j].kind = "content"

\* C3: once onParse has handled an event whose data is not JSON while the stream
\* was readable, the stream is errored with the SyntaxError of JSON.parse, no chunk
\* is enqueued after it, and a consumer that has finished reading got that error.
C3_MalformedFails ==
    \A i \in DOMAIN log :
        (log[i].kind = "invalid" /\ log[i].state = "readable") =>
            /\ stream.state = "errored"
            /\ stream.storedError = "SyntaxError"
            /\ Len(stream.enqueued) = log[i].enqueued
            /\ IsPrefix(chunksRead, stream.enqueued)
            /\ finishedReading => lastRead = ReadError("SyntaxError")

C3_Witness ==
    \E i, j \in DOMAIN log :
        /\ i < j
        /\ log[i].kind = "invalid" /\ log[i].state = "readable"
        /\ log[j].kind = "content"
        /\ finishedReading

\* C10: when the response body has ended and start's loop is over, no read of the
\* consumer is left waiting, and a stream with nothing left to read is closed or
\* errored.
C10_StreamEnds ==
    loop = "done" =>
        /\ stream.readRequests = 0
        /\ stream.queue = <<>> => stream.state \in {"closed", "errored"}

(***************************************************************************)
(* Properties of the call (under CallSpec).                                *)
(***************************************************************************)
\* C4: a response that is not 200 and whose JSON body has an error object makes the
\* call throw an OpenAIError with that object's message, type, param and code, and
\* no stream is made.
C4_OpenAIErrorFields ==
    (pc = "thrown" /\ res.status \notin {0, 200} /\ res.body \in ErrorBodies) =>
        LET e == GetProp(res.body.value.o, "error").o
        IN  /\ thrown.name = "OpenAIError"
            /\ thrown.message = <<GetProp(e, "message").s>>
            /\ thrown.type = GetProp(e, "type")
            /\ thrown.param = GetProp(e, "param")
            /\ thrown.code = GetProp(e, "code")
            /\ stream.state = "none"

C4_Witness ==
    /\ pc = "thrown"
    /\ res.status = 401
    /\ res.body \in ErrorBodies
    /\ thrown.param = Null

\* C5: a response that is not 200 and whose JSON body is an object without an
\* error field makes the call throw an error that is not an OpenAIError and whose
\* message holds the response's status text or its body.
C5_GenericErrorMessage ==
    (/\ pc = "thrown"
     /\ res.status \notin {0, 200}
     /\ res.body.valid
     /\ res.body.value.t = "object"
     /\ ~HasProp(res.body.value.o, "error")) =>
        /\ thrown.name # "OpenAIError"
        /\ \E i \in DOMAIN thrown.message :
              thrown.message[i] \in {res.statusText, res.body.text}

\* C6: with the azure flavor the url is host/openai/deployments/D/chat/completions
\* ?api-version=V, api-key carries the key and Authorization is absent; with the
\* openai flavor the url is host/v1/chat/completions, Authorization is Bearer and
\* the key, and api-key is absent.  The key is the caller's, or the environment's
\* when the caller's is empty.
C6_EndpointAndCredential ==
    pc # "idle" =>
        LET k == IF args.key # "" THEN args.key
                 ELSE IF config.OPENAI_API_KEY.t = "string" THEN config.OPENAI_API_KEY.s
                 ELSE "undefined"
            h == request.headers
        IN  /\ config.OPENAI_API_TYPE = "azure" =>
                  /\ request.url = <<config.OPENAI_API_HOST, "/openai/deployments/",
                                     config.AZURE_DEPLOYMENT_ID,
                                     "/chat/completions?api-version=",
                                     config.OPENAI_API_VERSION>>
                  /\ HasProp(h, "api-key") /\ GetProp(h, "api-key") = <<k>>
                  /\ ~HasProp(h, "Authorization")
            /\ config.OPENAI_API_TYPE = "openai" =>
                  /\ request.url = <<config.OPENAI_API_HOST, "/v1/chat/completions">>
                  /\ HasProp(h, "Authorization")
                  /\ GetProp(h, "Authorization") = <<"Bearer ", k>>
                  /\ ~HasProp(h, "api-key")

C6_Witness ==
    /\ pc = "fetch"
    /\ config.OPENAI_API_TYPE = "azure"
    /\ config.OPENAI_API_HOST = "https://proxy.example"
    /\ args.key = "sk-caller"

\* C7: whatever the flavor, the request has exactly one of the headers
\* Authorization and api-key.
C7_OneCredentialHeader ==
    pc # "idle" =>
        HasProp(request.headers, "Authorization") # HasProp(request.headers, "api-key")

\* C8: whatever model and temperature the caller gives, and in either flavor, the
\* body has model gpt-3.5-turbo-16k, temperature 0, max_tokens 4000 and stream
\* true, each once.
C8_FixedBodyFields ==
    pc # "idle" =>
        LET b == request.body
        IN  /\ \A k \in {"model", "temperature", "max_tokens", "stream"} :
                  Cardinality({i \in DOMAIN b : b[i][1] = k}) = 1
            /\ GetProp(b, "model") = "gpt-3.5-turbo-16k"
            /\ GetProp(b, "temperature") = 0
            /\ GetProp(b, "max_tokens") = 4000
            /\ GetProp(b, "stream") = TRUE

C8_Witness ==
    /\ pc = "fetch"
    /\ config.OPENAI_API_TYPE = "openai"
    /\ args.model.id = "gpt-4"
    /\ args.temperature = 1

\* C9: the body's messages are one system message with the fixed rubric, then the
\* caller's messages as given and in their order; the caller's systemPrompt is in
\* none of them.
C9_Messages ==
    pc # "idle" =>
        LET m == GetProp(request.body, "messages")
        IN  /\ m = <<[role |-> "system", content |-> RUBRIC]>> \o args.messages
            /\ \A i \in DOMAIN m : m[i].content # args.systemPrompt

C9_Witness ==
    /\ pc = "fetch"
    /\ Len(args.messages) = 2
    /\ args.messages[1] # args.messages[2]
    /\ GetProp(request.body, "messages")[3] = args.messages[2]

(***************************************************************************)
(* Properties of the loop and the consumer (under Spec and CancelSpec).    *)
(***************************************************************************)
\* C11: the loop takes bytes of the response body only while a read of the
\* consumer is waiting for a chunk, so nothing is produced ahead of the consumer's
\* requests.
C11_PullBased == [][Len(wire') < Len(wire) => stream.readRequests > 0]_vars

\* C12: once the consumer has cancelled the stream, the loop takes no further
\* bytes of the response body.
C12_CancelStopsReading == [][stream.cancelled => Len(wire') >= Len(wire)]_vars

(***************************************************************************)
(* Further properties of the call (under CallSpec).                        *)
(***************************************************************************)
\* C13: a call makes one fetch and no more: none before the call starts, exactly
\* one from then on, also after fetch has rejected or the status was not 200, and
\* a call that has failed carries the error it throws.
C13_SingleRequest ==
    /\ pc = "idle" => fetches = 0
    /\ pc # "idle" => fetches = 1
    /\ pc = "thrown" => thrown.name # ""

C13_Witness ==
    /\ pc = "thrown"
    /\ res = NoResponse
    /\ thrown.name = "TypeError"
    /\ fetches = 1

\* C15: a stream exists exactly when the call has returned, which it does only for
\* status 200; for any other status, whatever the body, the call throws, no stream
\* exists and nothing was fed to the event parser.
C15_StreamIffStatus200 ==
    /\ stream.state # "none" <=> pc = "returned"
    /\ pc = "returned" => (res.status = 200 /\ thrown = NoError)
    /\ pc = "thrown" =>
          /\ res.status # 200
          /\ thrown.name # ""
          /\ log = <<>>
          /\ parser = NewParser

C15_Witness ==
    /\ pc = "thrown"
    /\ res.status = 502
    /\ ~res.body.valid
    /\ stream.state = "none"

\* C16: in the openai flavor (after "Bearer ") and in the azure flavor (as api-key)
\* the key sent is the caller's key when that is not empty, and the environment's
\* OPENAI_API_KEY only when the caller's key is empty.
C16_CallerKeyFirst ==
    (pc # "idle" /\ config.OPENAI_API_TYPE \in {"openai", "azure"}) =>
        LET h == request.headers
            keySent == IF config.OPENAI_API_TYPE = "openai"
                       THEN GetProp(h, "Authorization")[2]
                       ELSE GetProp(h, "api-key")[1]
        IN  /\ args.key # "" => keySent = args.key
            /\ args.key = "" => keySent = String(config.OPENAI_API_KEY)

C16_Witness ==
    /\ pc = "fetch"
    /\ config.OPENAI_API_TYPE = "azure"
    /\ args.key = "sk-caller"
    /\ config.OPENAI_API_KEY = Str("sk-env")

(***************************************************************************)
(* Further properties of the stream (under Spec).                          *)
(***************************************************************************)
\* C14: once onParse has handled an event whose data is not JSON while the stream
\* was readable, nothing is left in the queue, the consumer has received exactly
\* the chunks it had read before that event, and every read settled since then,
\* waiting or new, failed with the parse error.
C14_ParseFailureDiscardsQueue ==
    \A i \in DOMAIN log :
        (log[i].kind = "invalid" /\ log[i].state = "readable") =>
            /\ stream.queue = <<>>
            /\ Cardinality({j \in DOMAIN stream.reads : stream.reads[j].kind = "chunk"})
                   = log[i].reads
            /\ \A j \in DOMAIN stream.reads :
                   j > log[i].reads => stream.reads[j] = ReadError("SyntaxError")

C14_Witness ==
    \E i \in DOMAIN log :
        /\ log[i].kind = "invalid" /\ log[i].state = "readable"
        /\ log[i].reads >= 1
        /\ log[i].enqueued > log[i].reads
        /\ finishedReading

\* C17: a stream that a finish event has closed (controller.close() has been
\* called and did not throw) never becomes errored, and a stream that is closed
\* or errored stays so, whatever events are handled afterwards.
C17_TerminalAbsorbing ==
    [][/\ stream.closeRequested => stream'.state # "errored"
       /\ stream.state = "closed" => stream'.state = "closed"
       /\ stream.state = "errored" => stream'.state = "errored"]_vars

\* The chunks enqueued when the events written so far arrive as one chunk.
wholeBodyChunks ==
    dispatch([stream |-> NewReadableStream, log |-> <<>>],
             feed(NewParser, decode(Flatten([i \in DOMAIN sent |-> wireOf(sent[i])])),
                  <<>>).events).stream.enqueued

\* C18: when the loop has read all the bytes written so far, the chunks produced
\* are those that the same bytes produce when they arrive as a single chunk:
\* the output does not depend on where the chunk boundaries fall.
C18_ChunkingIndependent ==
    wire = <<>> => stream.enqueued = wholeBodyChunks

openBefore(entry) == entry.state = "readable" /\ ~entry.closeRequested

\* The bytes of the content fragments onParse handled while the stream was open.
RECURSIVE acceptedBytes(_)
acceptedBytes(entries) ==
    IF entries = <<>> THEN <<>>
    ELSE (IF Head(entries).kind = "content" /\ openBefore(Head(entries))
          THEN encode(Head(entries).content) ELSE <<>>)
         \o acceptedBytes(Tail(entries))

====
